---- MODULE Spec2Model ----
(***************************************************************************)
(* A model of RITIS_Downloader (src/RITIS_Downloader.py): the job tracker, *)
(* the polling loop and the watermark ("last_run") handling of              *)
(* daily_download and continuous_download, run against an external RITIS   *)
(* server (job history listing, artifact fetch) and a wall clock.          *)
(*                                                                         *)
(* Time is counted in ticks.  An hour has HourLen ticks and a day          *)
(* HoursPerDay hours, so a datetime is a number of ticks since day 0       *)
(* 00:00, a date is a day number and a time of day is a tick of the day.   *)
(* The text formats of the program ('%Y-%m-%d %H:%M:%S' in the watermark   *)
(* file, '%Y-%m-%d' and '%Y-%m-%d-%H%M' in job names) are modelled by the  *)
(* value they denote together with the format, so that a date name and a   *)
(* datetime name are never equal.                                          *)
(***************************************************************************)
EXTENDS Integers, Sequences, FiniteSets, TLC

\* ------------------------------------------------------------- bounds
HourLen == 2
HoursPerDay == 2
MaxDay == 3
MaxRuns == 2
MaxJobs == 3
MaxNameLen == 2

DayLen == HourLen * HoursPerDay
MaxNow == MaxDay * DayLen - 1

\* ------------------------------------------------------------- program constants
\* the status code the program treats as "ready for download"
Ready == 3
\* the status code of a job the server has accepted (pending)
Pending == 1

DefaultLastRun == "last_run.txt"
OtherLastRun == "cursor.txt"
LastRunNames == {DefaultLastRun, OtherLastRun}

\* bin sizes the constructor's comment allows (5, 10, 15, 60 minutes): divisors of the hour
BinSizes == {b \in 1..HourLen : HourLen % b = 0}

VARIABLES
  now,        \* the wall clock, datetime.now()
  cfg,        \* the constructor's arguments, and what the server may do (the order of
              \* its listing, the flag it gives a fetched job)
  wmfiles,    \* the watermark files on disk: file name -> the datetime it holds
  outdir,     \* the parquet files under download_path: a set of [name, rows]
  history,    \* the server's jobs in order of submission; a job's uuid is its position
  pc,         \* where the running method is
  mode,       \* the method the user called
  jobs,       \* the tracked jobs: a dict in insertion order
  date_list,  \* daily_download's date_list
  idx,        \* the position of daily_download's for loop in date_list
  c,          \* the locals of continuous_download
  loaded,     \* the watermark most recently read from the watermark file
  lastSave,   \* the last write of a watermark file in this run: [file, value, loaded]
  submitted,  \* the names submitted by this run, in order
  persisted,  \* the names whose table this run has written to download_path
  refetched,  \* the names this run has fetched again after persisting their table
  failed,     \* the names whose fetch or decode raised in this run
  runs,       \* how many times a method has been started
  files0,     \* the names of the files under download_path when this run began
  prev,       \* of the run before this one: its date list, whether it persisted them
              \* all, whether it wrote a watermark, the files there were when it began
  logins,     \* how many times this run has logged in (__login)
  args        \* the arguments of single_download: start_date, end_date, job_name

vars == <<now, cfg, wmfiles, outdir, history, pc, mode, jobs, date_list, idx, c,
          loaded, lastSave, submitted, persisted, refetched, failed, runs, files0, prev,
          logins, args>>

NoSave == [file |-> "", value |-> 0, loaded |-> 0]
NoLocals == [today |-> 0, end_process_time |-> 0, start_time |-> 0, now |-> 0,
             next_step |-> 0, name |-> [fmt |-> "", v |-> 0], end_time |-> 0]

NoPrev == [dates |-> <<>>, persistedAll |-> TRUE, saved |-> FALSE, files0 |-> {}]

Stopped == {"idle", "done", "crashed", "killed"}

\* a job name the caller gives is a text: a sequence of characters
NoArgs == [start_date |-> 0, end_date |-> 0, job_name |-> <<>>]

\* ------------------------------------------------------------- dates and times
\* datetime.date()
DateOf(t) == t \div DayLen
\* datetime.time()
TimeOf(t) == t % DayLen
\* datetime.strptime(f'{date} {time}', '%Y-%m-%d %H:%M:%S')
DateTime(d, tod) == d * DayLen + tod
\* now.minute
MinuteOfHour(t) == t % HourLen

\* date.strftime("%Y-%m-%d")
DateName(d) == [fmt |-> "Ymd", v |-> d]
\* datetime.strftime("%Y-%m-%d-%H%M")
DateTimeName(t) == [fmt |-> "YmdHM", v |-> t]
\* a name that is a text given by the caller
TextName(s) == [fmt |-> "text", v |-> s]

\* open(file, 'w') and write: the file is created or replaced
WriteFile(files, f, v) == [g \in DOMAIN files \cup {f} |-> IF g = f THEN v ELSE files[g]]

SeqRange(s) == {s[i] : i \in DOMAIN s}
Reverse(s) == [i \in 1..Len(s) |-> s[Len(s) + 1 - i]]

\* ------------------------------------------------------------- __get_dates
RECURSIVE GetDatesLoop(_, _, _)
GetDatesLoopLt(last_run, yesterday, dl) ==
  IF last_run < yesterday
    THEN GetDatesLoop(last_run + 1, yesterday, Append(dl, DateName(last_run)))
    ELSE dl
GetDatesLoop(last_run, yesterday, dl) ==
  IF last_run <= yesterday
    THEN GetDatesLoop(last_run + 1, yesterday, Append(dl, DateName(last_run)))
    ELSE dl

GetDatesThroughToday(clock, watermark) ==
  LET today == DateOf(clock)
  IN GetDatesLoop(DateOf(watermark), today, <<>>)
GetDates(clock, watermark) ==
  LET today == DateOf(clock)
      yesterday == today - 1
  IN GetDatesLoop(DateOf(watermark), yesterday, <<>>)

\* ------------------------------------------------------------- the server
\* what browser.post(url_history).json() returns
Listing == IF cfg.newestFirst THEN Reverse(history) ELSE history

\* the job the server creates for a submitted request: one date range per date
\* of pd.date_range(start_date, end_date), each from start_time to end_time
NewJob(start_date, end_date, name, start_time, end_time) ==
  [description |-> name, uuid |-> Len(history) + 1, status |-> Pending,
   downloaded |-> FALSE,
   ranges |-> {[start |-> DateTime(d, start_time), end |-> DateTime(d, end_time)] :
                 d \in start_date..end_date}]

SubmitJob(start_date, end_date, name, start_time, end_time) ==
  /\ history' = Append(history, NewJob(start_date, end_date, name, start_time, end_time))
  /\ submitted' = Append(submitted, name)

\* ------------------------------------------------------------- __update_job_status
RECURSIVE FirstMatch(_, _, _)
LastMatch(hist, key, i) ==
  LET S == {m \in i..Len(hist) : hist[m].description = key}
  IN IF S = {} THEN 0 ELSE CHOOSE m \in S : \A n \in S : n <= m
FirstMatch(hist, key, i) ==
  IF i > Len(hist) THEN 0
  ELSE IF hist[i].description = key THEN i
  ELSE FirstMatch(hist, key, i + 1)

UpdateJobStatus(js, hist) ==
  [i \in DOMAIN js |->
     LET m == FirstMatch(hist, js[i].name, 1) IN
     IF m = 0 THEN js[i]
     ELSE [name |-> js[i].name, uuid |-> hist[m].uuid, status |-> hist[m].status,
           downloaded |-> hist[m].downloaded]]

\* jobs = {key: {'status': 0, 'uuid': ""} for key in ...}; the 'downloaded' key
\* is absent until __update_job_status sets it together with the status, and
\* __download_job reads it only when the status is 3, so absent is modelled as FALSE
NewJobs(names) ==
  [i \in DOMAIN names |-> [name |-> names[i], uuid |-> 0, status |-> 0, downloaded |-> FALSE]]

\* ------------------------------------------------------------- __download_job
\* the keys __download_job fetches, in the dict's order
IsToFetch(j) == j.status = Ready /\ j.downloaded = FALSE
ToFetch(js) == SelectSeq(js, IsToFetch)

\* df.to_parquet(path): the file holds the rows of df, replacing what it held
ToParquetAppend(dir, name, rows) ==
  IF \E f \in dir : f.name = name
    THEN {f \in dir : f.name # name}
           \cup {[name |-> name, rows |-> rows \o f.rows] : f \in {g \in dir : g.name = name}}
    ELSE dir \cup {[name |-> name, rows |-> rows]}
ToParquet(dir, name, rows) ==
  {f \in dir : f.name # name} \cup {[name |-> name, rows |-> rows]}

\* the table __extract_file_to_df decodes from the artifact of job uuid: one
\* group of rows per date range of the job
RECURSIVE SetToSeq(_)
SetToSeq(S) ==
  IF S = {} THEN <<>>
  ELSE LET x == CHOOSE y \in S : \A z \in S : y.start <= z.start
       IN <<x>> \o SetToSeq(S \ {x})
Artifact(uuid) == SetToSeq(history[uuid].ranges)

RECURSIVE PersistAll(_, _)
PersistAll(dir, todo) ==
  IF todo = <<>> THEN dir
  ELSE PersistAll(ToParquet(dir, Head(todo).name, Artifact(Head(todo).uuid)), Tail(todo))

\* one pass of __update_job_status followed by __download_job.  failAt = 0: every
\* fetch and decode succeeds; failAt = n: the n-th fetch raises, the exception
\* leaves the method and the run.  mark: whether the server's listing flags the
\* fetched jobs as downloaded afterwards (cfg.flags: what the server may do).
Poll(okpc, failAt, mark) ==
  LET js == UpdateJobStatus(jobs, Listing)
      tf == ToFetch(js)
      got == IF failAt = 0 THEN tf ELSE SubSeq(tf, 1, failAt - 1)
      uuids == {got[i].uuid : i \in DOMAIN got}
  IN /\ jobs' = IF failAt = 0 THEN js ELSE <<>>
     /\ outdir' = PersistAll(outdir, got)
     /\ persisted' = persisted \cup {got[i].name : i \in DOMAIN got}
     /\ refetched' = refetched \cup ({got[i].name : i \in DOMAIN got} \cap persisted)
     /\ failed' = IF failAt = 0 THEN failed ELSE failed \cup {tf[failAt].name}
     /\ history' = IF mark
                     THEN [i \in DOMAIN history |->
                             IF i \in uuids THEN [history[i] EXCEPT !.downloaded = TRUE]
                             ELSE history[i]]
                     ELSE history
     /\ pc' = IF failAt = 0 THEN okpc ELSE "crashed"

PollChoices == {<<f, m>> : f \in 0..Len(ToFetch(UpdateJobStatus(jobs, Listing))), m \in cfg.flags}

\* ------------------------------------------------------------- environment
\* the clock moves on by one tick
Tick ==
  /\ now < MaxNow
  /\ now' = now + 1
  /\ UNCHANGED <<cfg, wmfiles, outdir, history, pc, mode, jobs, date_list, idx, c,
                 loaded, lastSave, submitted, persisted, refetched, failed, runs, files0, prev,
                 logins, args>>

\* the clock moves on by one day; daily_download reads the clock's date only
TickDay ==
  /\ now + DayLen <= MaxNow
  /\ now' = now + DayLen
  /\ UNCHANGED <<cfg, wmfiles, outdir, history, pc, mode, jobs, date_list, idx, c,
                 loaded, lastSave, submitted, persisted, refetched, failed, runs, files0, prev,
                 logins, args>>

\* the server works on a job: pending (1), then 2, then ready (3)
ServerAdvance ==
  \E i \in DOMAIN history :
    /\ history[i].status < Ready
    /\ history' = [history EXCEPT ![i].status = @ + 1]
    /\ UNCHANGED <<now, cfg, wmfiles, outdir, pc, mode, jobs, date_list, idx, c,
                   loaded, lastSave, submitted, persisted, refetched, failed, runs, files0, prev,
                 logins, args>>

\* the process is killed while a method runs; its memory (the jobs dict, the loop
\* position, the locals) is gone, the files and the server's jobs stay
Kill ==
  /\ pc \notin Stopped
  /\ pc' = "killed"
  /\ jobs' = <<>>
  /\ idx' = 1
  /\ c' = NoLocals
  /\ UNCHANGED <<now, cfg, wmfiles, outdir, history, mode, date_list,
                 loaded, lastSave, submitted, persisted, refetched, failed, runs, files0, prev,
                 logins, args>>

\* ------------------------------------------------------------- daily_download
\* continuous_download, lines 265-272, right after daily_download has returned:
\* today, the login, end_process_time and start_time
ContLocals ==
  [NoLocals EXCEPT !.today = DateOf(now),
                   !.end_process_time = DateTime(DateOf(now), cfg.end_time),
                   !.start_time = cfg.start_time]

\* daily_download returns: to its caller continuous_download, or the run is over
DailyReturn(m, n) ==
  /\ pc' = IF m = "continuous" THEN "c_loop" ELSE "done"
  /\ c' = IF m = "continuous" THEN ContLocals ELSE NoLocals
  /\ logins' = IF m = "continuous" THEN n + 1 ELSE n

\* lines 213-223: the date list, the early return, the jobs dict, the login
DailyBegin(m) ==
  LET dl == GetDates(now, wmfiles[cfg.last_run]) IN
  /\ loaded' = wmfiles[cfg.last_run]
  /\ date_list' = dl
  /\ idx' = 1
  /\ IF dl = <<>>
       THEN /\ DailyReturn(m, 0)
            /\ jobs' = <<>>
       ELSE /\ pc' = "d_submit"
            /\ c' = NoLocals
            /\ jobs' = NewJobs(dl)
            /\ logins' = 1

StartRun(m) ==
  /\ pc \in Stopped
  /\ runs < MaxRuns
  /\ runs' = runs + 1
  /\ mode' = m
  /\ lastSave' = NoSave
  /\ submitted' = <<>>
  /\ persisted' = {}
  /\ refetched' = {}
  /\ failed' = {}
  /\ files0' = {f.name : f \in outdir}
  /\ prev' = [dates |-> date_list,
               persistedAll |-> SeqRange(date_list) \subseteq persisted,
               saved |-> lastSave # NoSave,
               files0 |-> files0]

StartDaily ==
  /\ StartRun("daily")
  /\ DailyBegin("daily")
  /\ UNCHANGED <<now, cfg, wmfiles, outdir, history, args>>

\* line 227: submit the job of the loop's date
DailySubmit ==
  /\ pc = "d_submit"
  /\ Len(history) < MaxJobs
  /\ LET d == date_list[idx].v IN
       SubmitJob(d, d, date_list[idx], cfg.start_time, cfg.end_time)
  /\ pc' = "d_poll"
  /\ UNCHANGED <<now, cfg, wmfiles, outdir, mode, jobs, date_list, idx, c,
                 loaded, lastSave, persisted, refetched, failed, runs, files0, prev,
                 logins, args>>

\* lines 229-231: after the sleep, update every job and download the ready ones
DailyPoll ==
  /\ pc = "d_poll"
  /\ \E ch \in PollChoices :
       Poll(IF idx < Len(date_list) THEN "d_submit" ELSE "d_remaining", ch[1], ch[2])
  /\ idx' = IF pc' = "crashed" THEN 1 ELSE idx + 1
  /\ UNCHANGED <<now, cfg, wmfiles, mode, date_list, c, loaded, lastSave, submitted, runs, files0, prev,
                 logins, args>>

\* __download_all_remaining, lines 205-208: one turn of the loop
AnyNotReadyFirst(js) == js # <<>> /\ js[1].status # Ready
AnyNotReady(js) == \E i \in DOMAIN js : js[i].status # Ready

\* where __download_all_remaining is called from: daily_download (line 234),
\* continuous_download (line 301), single_download (line 253)
RemainingPcs == {"d_remaining", "c_remaining", "s_remaining"}

RemainingPoll ==
  /\ pc \in RemainingPcs
  /\ AnyNotReady(jobs)
  /\ \E ch \in PollChoices : Poll(pc, ch[1], ch[2])
  /\ idx' = IF pc' = "crashed" THEN 1 ELSE idx
  /\ c' = IF pc' = "crashed" THEN NoLocals ELSE c
  /\ UNCHANGED <<now, cfg, wmfiles, mode, date_list, loaded, lastSave, submitted, runs, files0, prev,
                 logins, args>>

\* __download_all_remaining returns; daily_download closes the browser (line 237)
RemainingDone ==
  /\ pc \in RemainingPcs
  /\ ~AnyNotReady(jobs)
  /\ pc' = IF pc = "d_remaining" THEN "d_save"
           ELSE IF pc = "c_remaining" THEN "c_merge"
           ELSE "done"
  /\ UNCHANGED <<now, cfg, wmfiles, outdir, history, mode, jobs, date_list, idx, c,
                 loaded, lastSave, submitted, persisted, refetched, failed, runs, files0, prev,
                 logins, args>>

\* lines 240-241: open('last_run.txt', 'w'), write now as '%Y-%m-%d 00:00:00'
DailySaveFile == DefaultLastRun
DailySaveValue == DateTime(DateOf(now), 0)

DailySave ==
  /\ pc = "d_save"
  /\ wmfiles' = WriteFile(wmfiles, DailySaveFile, DailySaveValue)
  /\ lastSave' = [file |-> DailySaveFile, value |-> DailySaveValue, loaded |-> loaded]
  /\ DailyReturn(mode, logins)
  /\ jobs' = <<>>
  /\ idx' = 1
  /\ UNCHANGED <<now, cfg, outdir, history, mode, date_list,
                 loaded, submitted, persisted, refetched, failed, runs, files0, prev, args>>

\* ------------------------------------------------------------- continuous_download
\* lines 258-263: the interval check (exit()), then daily_download
StartContinuous ==
  /\ StartRun("continuous")
  /\ IF cfg.interval < cfg.bin_size
       THEN /\ pc' = "done"
            /\ c' = NoLocals
            /\ logins' = 0
            /\ UNCHANGED <<jobs, date_list, idx, loaded>>
       ELSE DailyBegin("continuous")
  /\ UNCHANGED <<now, cfg, wmfiles, outdir, history, args>>

\* current_minute = now.minute + now.hour * 60
CurrentMinute(t) == MinuteOfHour(t) + (TimeOf(t) \div HourLen) * HourLen
\* next_step = int(current_minute / continuous_download_interval) + 1
NextStep(t) == (CurrentMinute(t) \div cfg.interval) + 1

\* lines 274-281: the outer loop's test, now and next_step; lines 322-323 when
\* the test fails
ContLoop ==
  /\ pc = "c_loop"
  /\ IF now <= c.end_process_time
       THEN /\ c' = [c EXCEPT !.now = now, !.next_step = NextStep(now)]
            /\ pc' = "c_submit"
       ELSE /\ pc' = "done"
            /\ c' = NoLocals
  /\ jobs' = <<>>
  /\ UNCHANGED <<now, cfg, wmfiles, outdir, history, mode, date_list, idx,
                 loaded, lastSave, submitted, persisted, refetched, failed, runs, files0, prev,
                 logins, args>>

Max(a, b) == IF a >= b THEN a ELSE b

\* end_time = now - timedelta(minutes=now.minute % bin_size, seconds=..., microseconds=...)
RoundDown(t) == t - (MinuteOfHour(t) % cfg.bin_size)

\* lines 284-299: read the watermark, name the job after it, the window from
\* start_time to end_time, the jobs dict, the submission
ContSubmit ==
  /\ pc = "c_submit"
  /\ Len(history) < MaxJobs
  /\ LET last_run_datetime == wmfiles[cfg.last_run]
         name == DateTimeName(last_run_datetime)
         start_time == Max(c.start_time, TimeOf(last_run_datetime))
         end_time == RoundDown(c.now)
     IN /\ loaded' = last_run_datetime
        /\ c' = [c EXCEPT !.name = name, !.start_time = start_time, !.end_time = end_time]
        /\ jobs' = NewJobs(<<name>>)
        /\ SubmitJob(c.today, c.today, name, start_time, TimeOf(end_time))
  /\ pc' = "c_remaining"
  /\ UNCHANGED <<now, cfg, wmfiles, outdir, mode, date_list, idx, lastSave,
                 persisted, refetched, failed, runs, files0, prev,
                 logins, args>>

FileNamed(dir, name) == {f \in dir : f.name = name}

\* lines 304-311: read the job's file (read_parquet raises when it is missing),
\* remove it, append today's file when there is one, write today's file
ContMerge ==
  /\ pc = "c_merge"
  /\ IF FileNamed(outdir, c.name) = {}
       THEN /\ pc' = "crashed"
            /\ outdir' = outdir
            /\ jobs' = <<>>
            /\ c' = NoLocals
       ELSE LET df == (CHOOSE f \in outdir : f.name = c.name).rows
                removed == {f \in outdir : f.name # c.name}
                day == DateName(c.today)
                df2 == IF FileNamed(removed, day) = {} THEN <<>>
                       ELSE (CHOOSE f \in removed : f.name = day).rows
            IN /\ outdir' = ToParquet(removed, day, df \o df2)
               /\ pc' = "c_save"
               /\ UNCHANGED <<jobs, c>>
  /\ UNCHANGED <<now, cfg, wmfiles, history, mode, date_list, idx,
                 loaded, lastSave, submitted, persisted, refetched, failed, runs, files0, prev,
                 logins, args>>

\* lines 314-315: write f'{today} {end_time_str}' to the last_run file
ContSaveValue == DateTime(c.today, TimeOf(c.end_time))

ContSave ==
  /\ pc = "c_save"
  /\ wmfiles' = WriteFile(wmfiles, cfg.last_run, ContSaveValue)
  /\ lastSave' = [file |-> cfg.last_run, value |-> ContSaveValue, loaded |-> loaded]
  /\ pc' = "c_wait"
  /\ UNCHANGED <<now, cfg, outdir, history, mode, jobs, date_list, idx, c,
                 loaded, submitted, persisted, refetched, failed, runs, files0, prev,
                 logins, args>>

\* line 318: the wait loop's test,
\* (datetime.now().minute + datetime.now().hour * 60) / interval < next_step
Waiting(t) == CurrentMinute(t) < c.next_step * cfg.interval

\* lines 318-319: the wait loop ends
ContWait ==
  /\ pc = "c_wait"
  /\ ~Waiting(now)
  /\ pc' = "c_loop"
  /\ UNCHANGED <<now, cfg, wmfiles, outdir, history, mode, jobs, date_list, idx, c,
                 loaded, lastSave, submitted, persisted, refetched, failed, runs, files0, prev,
                 logins, args>>

\* ------------------------------------------------------------- single_download
\* the characters of a job name the caller gives: a space, a colon, a letter
Chars == {" ", ":", "a"}
JobNames == UNION {[1..n -> Chars] : n \in 0..MaxNameLen}
\* the dates the caller gives: the first and the last day
SingleDates == {0, MaxDay - 1}

\* str.replace(old, new): every occurrence of the character old becomes the text new
RECURSIVE Replace(_, _, _)
Replace(s, old, new) ==
  IF s = <<>> THEN <<>>
  ELSE (IF Head(s) = old THEN new ELSE <<Head(s)>>) \o Replace(Tail(s), old, new)

\* line 245: job_name.replace(' ', '_').replace(':','')
SanitizeColonToUnderscore(job_name) == Replace(Replace(job_name, " ", <<"_">>), ":", <<"_">>)
Sanitize(job_name) == Replace(Replace(job_name, " ", <<"_">>), ":", <<>>)

\* lines 245-249: the job name, the jobs dict, the login
StartSingle ==
  /\ StartRun("single")
  /\ \E sd \in SingleDates, ed \in SingleDates, jn \in JobNames :
       /\ args' = [start_date |-> sd, end_date |-> ed, job_name |-> jn]
       /\ jobs' = NewJobs(<<TextName(Sanitize(jn))>>)
  /\ logins' = 1
  /\ pc' = "s_submit"
  /\ idx' = 1
  /\ c' = NoLocals
  /\ UNCHANGED <<now, cfg, wmfiles, outdir, history, date_list, loaded>>

\* line 251: submit the job, with the default start_time and end_time
SingleSubmit ==
  /\ pc = "s_submit"
  /\ Len(history) < MaxJobs
  /\ SubmitJob(args.start_date, args.end_date, jobs[1].name, cfg.start_time, cfg.end_time)
  /\ pc' = "s_remaining"
  /\ UNCHANGED <<now, cfg, wmfiles, outdir, mode, jobs, date_list, idx, c,
                 loaded, lastSave, persisted, refetched, failed, runs, files0, prev,
                 logins, args>>

\* ------------------------------------------------------------- specifications
\* the defaults of __init__ (line 34-36): start_time '00:00:00', end_time
\* '23:59:00', bin_size 15, continuous_download_interval 60
DefaultStart == 0
DefaultEnd == DayLen - 1
DefaultInterval == HourLen

InitCommon ==
  /\ now = 0
  /\ outdir = {}
  /\ history = <<>>
  /\ pc = "idle"
  /\ mode = "none"
  /\ jobs = <<>>
  /\ date_list = <<>>
  /\ idx = 1
  /\ c = NoLocals
  /\ loaded = 0
  /\ lastSave = NoSave
  /\ submitted = <<>>
  /\ persisted = {}
  /\ refetched = {}
  /\ failed = {}
  /\ runs = 0
  /\ files0 = {}
  /\ prev = NoPrev
  /\ logins = 0
  /\ args = NoArgs

\* the last_run file the user has seeded; no other watermark file exists yet
SeedFiles == [f \in {cfg.last_run} |-> DateTime(0, 0)]

Init ==
  /\ InitCommon
  /\ cfg \in [last_run : LastRunNames, start_time : {DefaultStart}, end_time : {DefaultEnd},
              bin_size : {HourLen}, interval : {DefaultInterval}, newestFirst : BOOLEAN,
              flags : {BOOLEAN}]
  /\ wmfiles = SeedFiles

InitContinuous ==
  /\ InitCommon
  /\ cfg \in [last_run : {DefaultLastRun}, start_time : {DefaultStart, 1},
              end_time : {HourLen, DefaultEnd},
              bin_size : BinSizes, interval : 1..(HourLen + 1), newestFirst : BOOLEAN,
              flags : {{TRUE}}]
  /\ wmfiles = SeedFiles

Next ==
  \/ TickDay
  \/ ServerAdvance
  \/ Kill
  \/ StartDaily
  \/ DailySubmit
  \/ DailyPoll
  \/ RemainingPoll
  \/ RemainingDone
  \/ DailySave

NextContinuous ==
  \/ Tick
  \/ ServerAdvance
  \/ Kill
  \/ StartContinuous
  \/ DailySubmit
  \/ DailyPoll
  \/ RemainingPoll
  \/ RemainingDone
  \/ DailySave
  \/ ContLoop
  \/ ContSubmit
  \/ ContMerge
  \/ ContSave
  \/ ContWait

\* continuous_download of a downloader constructed with last_run='cursor.txt'
InitOtherLastRun ==
  /\ InitCommon
  /\ cfg \in [last_run : {OtherLastRun}, start_time : {DefaultStart}, end_time : {DefaultEnd},
              bin_size : BinSizes, interval : {DefaultInterval}, newestFirst : BOOLEAN,
              flags : {{TRUE}}]
  /\ wmfiles = SeedFiles

NextSingle ==
  \/ ServerAdvance
  \/ Kill
  \/ StartSingle
  \/ SingleSubmit
  \/ RemainingPoll
  \/ RemainingDone

InitSingle ==
  /\ InitCommon
  /\ cfg \in [last_run : {DefaultLastRun}, start_time : {DefaultStart}, end_time : {DefaultEnd},
              bin_size : {HourLen}, interval : {DefaultInterval}, newestFirst : BOOLEAN,
              flags : {BOOLEAN}]
  /\ wmfiles = SeedFiles

Spec == Init /\ [][Next]_vars

SpecSingle == InitSingle /\ [][NextSingle]_vars

SpecOtherLastRun == InitOtherLastRun /\ [][NextContinuous]_vars

\* daily_download under fairness: the server goes on working on the jobs it has,
\* and the method, a sequential program whose sleeps are finite (lines 206 and
\* 229), goes on to its next step whenever it has one.  Kill and the clock are
\* not fair: the process may never be killed and no day needs to pass.
Fairness ==
  /\ WF_vars(ServerAdvance)
  /\ WF_vars(DailySubmit)
  /\ WF_vars(DailyPoll)
  /\ WF_vars(RemainingPoll)
  /\ WF_vars(RemainingDone)
  /\ WF_vars(DailySave)

SpecFair == Init /\ [][Next]_vars /\ Fairness

SpecContinuous == InitContinuous /\ [][NextContinuous]_vars

\* ------------------------------------------------------------- claims
DailyNames == SeqRange(date_list)
SavedThisRun == lastSave # NoSave

\* C1: in daily_download the watermark file is written only after every job of
\* the batch (one per date of the date list) has had its table persisted to the
\* output directory during this run.
C1_WatermarkOnlyAfterAllPersisted ==
  (mode = "daily" /\ SavedThisRun) => DailyNames \subseteq persisted

\* C2: the watermark daily_download saves is the day after the last date of the
\* date list it submitted, however much time passed since the list was computed.
C2_SavedIsDayAfterLastDate ==
  (mode = "daily" /\ SavedThisRun) =>
     lastSave.value = DateTime(date_list[Len(date_list)].v + 1, 0)

\* C3: for a watermark date w and a start-of-run date t with w < t, daily_download
\* submits exactly one job for each date d with w <= d <= t-1, in ascending order,
\* each named by its date, and no other job: the date list computed at the start
\* of the run is w, w+1, ..., t-1, the jobs submitted so far are always a prefix
\* of it, and once the submission loop is over they are the whole of it.
DatesFrom(w, t) == [i \in 1..(t - w) |-> DateName(w + i - 1)]
IsPrefix(a, b) == Len(a) <= Len(b) /\ \A i \in DOMAIN a : a[i] = b[i]
PairwiseDistinct(a) == \A i, j \in DOMAIN a : i # j => a[i] # a[j]
AfterSubmitLoop == pc \in {"d_remaining", "d_save"} \/ (pc = "done" /\ SavedThisRun)

C3_StartComputesDates ==
  (runs' = runs + 1 /\ DateOf(wmfiles[cfg.last_run]) < DateOf(now)) =>
     date_list' = DatesFrom(DateOf(wmfiles[cfg.last_run]), DateOf(now))
JobOfDate(h, name) ==
  /\ h.description = name
  /\ h.ranges = {[start |-> DateTime(name.v, cfg.start_time),
                  end |-> DateTime(name.v, cfg.end_time)]}
C3_SubmittedFollowsDates ==
  /\ IsPrefix(submitted, date_list)
  /\ PairwiseDistinct(submitted)
  /\ AfterSubmitLoop => submitted = date_list
  /\ \A i \in DOMAIN submitted :
        JobOfDate(history[Len(history) - Len(submitted) + i], submitted[i])
C3_OneJobPerOutstandingDate ==
  [][C3_StartComputesDates]_vars /\ []C3_SubmittedFollowsDates

C3_Witness ==
  /\ pc = "d_remaining"
  /\ DateOf(loaded) = 0
  /\ submitted = <<DateName(0), DateName(1)>>

\* C4: a tracked job's 'downloaded' flag is true only when this run has
\* persisted the job's table in __download_job.
C4_DownloadedOnlyByPersistence ==
  \A i \in DOMAIN jobs : jobs[i].downloaded => jobs[i].name \in persisted

\* C5: when the fetch or decode of a ready job fails, the run continues (the job
\* stays tracked and is fetched again on the next polling cycle).
C5_RunContinuesAfterFailedFetch ==
  failed # {} => pc # "crashed"

\* C8: after daily_download has completed with a watermark write, a second
\* daily_download started on the same calendar day finds no outstanding date.
C8_SecondRunSameDayFindsNothing ==
  [][(runs' = runs + 1 /\ pc = "done" /\ SavedThisRun
        /\ DateOf(lastSave.value) = DateOf(now))
       => date_list' = <<>>]_vars

\* C10: when a run has persisted the tables of all its dates and stopped before
\* saving the watermark, and a second run over the same dates has saved it, each
\* date's output file holds the rows of one download of that date and the
\* output files are the ones a single successful run leaves: the files there
\* were before the first of the two runs and one file per date.
OneDownloadOf(f) ==
  f.rows = <<[start |-> DateTime(f.name.v, cfg.start_time),
              end |-> DateTime(f.name.v, cfg.end_time)]>>
SecondRunOverSameDates ==
  /\ mode = "daily"
  /\ pc = "done"
  /\ SavedThisRun
  /\ prev.dates = date_list
  /\ prev.persistedAll
  /\ ~prev.saved
C10_RerunOverwrites ==
  SecondRunOverSameDates =>
     /\ {f.name : f \in outdir} = prev.files0 \cup DailyNames
     /\ \A f \in outdir : OneDownloadOf(f)

C10_Witness ==
  /\ SecondRunOverSameDates
  /\ DailyNames # {}
  /\ DailyNames \subseteq persisted

\* C6: every write of a watermark file, at the end of daily_download and at the
\* end of each iteration of continuous_download, stores a value strictly greater
\* than the watermark most recently read.
C6_SaveStrictlyGreater ==
  SavedThisRun => lastSave.value > lastSave.loaded

\* C7: continuous_download returns once the time has passed end_time; so its
\* wait-for-next-interval loop can always end: whenever the method is in that
\* loop, some time of day makes the loop's test false.  (Stated for the
\* iterations that began before end_time, so that no violation rests on the clock
\* reading end_time to the microsecond in the outer loop's test.)
C7_WaitLoopCanEnd ==
  (pc = "c_wait" /\ c.now < c.end_process_time) =>
     \E t \in 0..(DayLen - 1) : ~Waiting(t)

\* C9: the day's output table of continuous_download holds the rows of each
\* downloaded time window once: no two groups of rows in a file cover a common
\* stretch of time, also when the process was killed and started again.
Min(a, b) == IF a <= b THEN a ELSE b
Overlap(r1, r2) == Max(r1.start, r2.start) < Min(r1.end, r2.end)
C9_NoWindowTwice ==
  \A f \in outdir : \A i, j \in DOMAIN f.rows :
     i # j => ~Overlap(f.rows[i], f.rows[j])

\* C11: when the watermark date is not earlier than today, daily_download
\* returns at once: the run is over in the step that starts it, with no login,
\* no tracked job, no job submitted, no table written and the watermark files
\* as they were.
C11_NoOutstandingDateIsNoOp ==
  [][(runs' = runs + 1 /\ mode' = "daily"
        /\ DateOf(wmfiles[cfg.last_run]) >= DateOf(now))
       => /\ pc' = "done"
          /\ logins' = 0
          /\ jobs' = <<>>
          /\ submitted' = <<>>
          /\ history' = history
          /\ persisted' = {}
          /\ outdir' = outdir
          /\ lastSave' = NoSave
          /\ wmfiles' = wmfiles]_vars

C11_Witness ==
  /\ mode = "daily"
  /\ runs = 2
  /\ prev.saved
  /\ pc = "done"
  /\ date_list = <<>>
  /\ logins = 0
  /\ DateOf(wmfiles[cfg.last_run]) = DateOf(now)

\* C12: single_download submits exactly one job, named by the caller's job_name
\* with every space replaced by an underscore and every colon removed, for the
\* dates from start_date to end_date, and tracks it under that same name; no
\* step of it reads or writes a watermark file.
IsSanitized(n, jn) ==
  LET kept == {p \in DOMAIN jn : jn[p] # ":"}
      place(p) == Cardinality({q \in kept : q <= p})
  IN /\ Len(n) = Cardinality(kept)
     /\ \A p \in kept : n[place(p)] = IF jn[p] = " " THEN "_" ELSE jn[p]
IsJobOfArgs(h) ==
  /\ h.description.fmt = "text"
  /\ IsSanitized(h.description.v, args.job_name)
  /\ h.ranges = {[start |-> DateTime(d, cfg.start_time), end |-> DateTime(d, cfg.end_time)] :
                   d \in args.start_date..args.end_date}
C12_OneJobSubmitted ==
  mode = "single" =>
    /\ Len(submitted) <= 1
    /\ pc = "s_submit" => submitted = <<>>
    /\ pc \in {"s_remaining", "done"} =>
         /\ Len(submitted) = 1
         /\ IsJobOfArgs(history[Len(history)])
         /\ submitted[1] = history[Len(history)].description
         /\ Len(jobs) = 1
         /\ jobs[1].name = submitted[1]
C12_WatermarkUntouched ==
  wmfiles' = wmfiles /\ loaded' = loaded /\ lastSave' = NoSave
C12_SingleDownloadOneJobNoWatermark ==
  []C12_OneJobSubmitted /\ [][C12_WatermarkUntouched]_vars

C12_Witness ==
  /\ mode = "single"
  /\ pc = "done"
  /\ args.job_name = <<":", " ">>
  /\ args.start_date < args.end_date
  /\ submitted = <<TextName(<<"_">>)>>
  /\ persisted = {TextName(<<"_">>)}

\* C13: __download_all_remaining returns only when every job of the batch has
\* had its table fetched and persisted by this run, whatever status and
\* downloaded flag the listing reports for the job's name.
C13_ReturnsOnlyWhenAllPersisted ==
  [][(pc \in RemainingPcs /\ pc' \in {"d_save", "c_merge", "done"})
       => \A i \in DOMAIN jobs : jobs[i].name \in persisted]_vars

\* C14: polling has no wait budget.  __download_all_remaining returns only from
\* a state in which the last poll saw status 3 for every job of the batch; a
\* watermark saved by daily_download means the listing holds, for every name of
\* the batch, an entry with status 3 (so a name that never gets one keeps the
\* loop running and the watermark unsaved); and under fairness, when the server
\* brings every job to status 3 and no fetch fails (the run neither crashes nor
\* is killed), a running daily_download eventually saves the watermark.
DailyRunning == {"d_submit", "d_poll", "d_remaining", "d_save"}
\* the jobs still to submit fit under the cap on the server's history
Room == Len(history) + Len(date_list) - Len(submitted) <= MaxJobs
C14_ReturnsWhenAllReady ==
  (pc \in RemainingPcs /\ pc' \in {"d_save", "c_merge", "done"}) => ~AnyNotReady(jobs)
C14_SavedMeansAllListedReady ==
  (mode = "daily" /\ SavedThisRun) =>
     \A n \in DailyNames :
        \E i \in DOMAIN history : history[i].description = n /\ history[i].status = Ready
C14_EventuallySaved ==
  (mode = "daily" /\ pc \in DailyRunning /\ Room)
     ~> (SavedThisRun \/ pc \in {"crashed", "killed"})
C14_NoWaitBudget ==
  /\ [][C14_ReturnsWhenAllReady]_vars
  /\ []C14_SavedMeansAllListedReady
  /\ C14_EventuallySaved

C14_Witness ==
  /\ mode = "daily"
  /\ pc = "d_remaining"
  /\ Room
  /\ Len(jobs) = 2
  /\ jobs[1].status = Ready
  /\ jobs[2].status = Pending

\* C15: within one run of continuous_download no two iterations submit a job
\* with the same name, for every start time of day, bin size and interval with
\* interval >= bin size.
C15_NamesDistinctWithinRun ==
  (mode = "continuous" /\ cfg.interval >= cfg.bin_size) => PairwiseDistinct(submitted)

\* C16: once a run has persisted a job's table, no later polling cycle of the
\* same run fetches that job's artifact again, whatever the listing reports.
C16_NoFetchAfterPersisted ==
  \A n \in persisted : n \notin refetched

\* C17: a polling cycle's reconciliation changes only the tracked jobs whose name
\* is the description of some listing entry, giving them the uuid, status and
\* downloaded flag of the first such entry in the listing's order; a tracked job
\* with no such entry stays as it was, and the tracked names stay the same, in
\* the same order, also when the listing holds entries of other runs.
Matches(key) == {m \in DOMAIN Listing : Listing[m].description = key}
Reconciled(old, new) ==
  /\ Len(new) = Len(old)
  /\ \A i \in DOMAIN old :
       /\ new[i].name = old[i].name
       /\ Matches(old[i].name) = {} => new[i] = old[i]
       /\ Matches(old[i].name) # {} =>
            LET m == CHOOSE k \in Matches(old[i].name) :
                       \A n \in Matches(old[i].name) : k <= n
            IN /\ new[i].uuid = Listing[m].uuid
               /\ new[i].status = Listing[m].status
               /\ new[i].downloaded = Listing[m].downloaded
C17_PollReconciles ==
  /\ (pc = "d_poll" /\ pc' \in {"d_submit", "d_remaining"}) => Reconciled(jobs, jobs')
  /\ (pc \in RemainingPcs /\ pc' = pc /\ jobs' # jobs) => Reconciled(jobs, jobs')
  /\ (pc \in DailyRunning /\ pc' \in DailyRunning) =>
        /\ [i \in DOMAIN jobs' |-> jobs'[i].name] = date_list
        /\ [i \in DOMAIN jobs |-> jobs[i].name] = date_list
C17_ReconciliationFrame == [][C17_PollReconciles]_vars

C17_Witness ==
  /\ pc = "d_submit"
  /\ Len(jobs) = 2
  /\ jobs[1].uuid # 0
  /\ jobs[1].status = Ready
  /\ jobs[2] = NewJobs(date_list)[2]
  /\ Cardinality(Matches(jobs[1].name)) = 2

\* C18: in continuous_download the windows of consecutive iterations leave no
\* gap: every stretch of the day between the configured start_time and the
\* watermark an iteration has saved lies within the window of some submitted job
\* of that day.
Covered(d, t) ==
  \E i \in DOMAIN history : \E r \in history[i].ranges :
     r.start <= DateTime(d, t) /\ DateTime(d, t + 1) <= r.end
C18_NoGapInWindows ==
  (mode = "continuous" /\ SavedThisRun /\ lastSave.file = cfg.last_run) =>
     \A t \in cfg.start_time..(TimeOf(lastSave.value) - 1) :
        Covered(DateOf(lastSave.value), t)

====
